---- MODULE Spec2Model ----
(***************************************************************************)
(* Contact-management backend (src/main.py, src/models.py).                *)
(*                                                                         *)
(* The state is the content of the two tables (users, contacts), the       *)
(* rate limiter's counter store, the clock, the access tokens handed out   *)
(* by login, and the last request together with its response.  Every       *)
(* route handler of src/main.py is one action; a handler's dependencies    *)
(* (rate limiter, get_current_user, body parsing) are part of its action.  *)
(*                                                                         *)
(* The database outlives the process (line 18 only creates missing         *)
(* tables), so a specification starts from a users table that satisfies    *)
(* the schema of src/models.py; the contacts table starts empty.           *)
(*                                                                         *)
(* Class User of src/models.py maps no verification_token, which register  *)
(* passes to the constructor and verify_email reads from the class: both   *)
(* handlers end in an unhandled exception (500) once they get there.       *)
(*                                                                         *)
(* now is the clock in seconds and ticks counts its advances; issued is    *)
(* the set of access tokens login has handed out.  hosted is the set of    *)
(* images the image host stores.  pending holds the requests whose handler *)
(* has read the datastore and has not committed yet (one slot per          *)
(* concurrent request).  created is a history variable: for each client    *)
(* the times of its contact creations during the last RATE_SECONDS, kept   *)
(* only by the specification SpecLimiter.                                  *)
(***************************************************************************)
EXTENDS Integers, Sequences, FiniteSets, TLC

VARIABLES users, contacts, limiter, now, ticks, issued, resp, hosted, pending, created

vars == <<users, contacts, limiter, now, ticks, issued, resp, hosted, pending, created>>

(***************************************************************************)
(* Bounds of the model                                                     *)
(***************************************************************************)
MaxUserId == 2
MaxContactId == 2
MaxTicks == 1
MaxIssued == 1

None == "None"

Emails == {"a@x.org", "b@x.org", "c@x.org"}
Passwords == {"pw1", "pw2"}
Clients == {"10.0.0.1"}
Urls == {"http://img/1", "http://img/2"}

(***************************************************************************)
(* models.py: the mapped classes                                           *)
(***************************************************************************)
\* Attributes of class User: five columns and the relationship.
UserAttrs == {"id", "email", "hashed_password", "is_verified", "avatar_url", "contacts"}

UserColumns == UserAttrs \ {"contacts"}

\* Column defaults of User: is_verified 0, avatar_url None, the rest NULL.
UserDefault(c) == IF c = "is_verified" THEN 0 ELSE None

\* Attributes of class Contact: eight columns and the relationship.
ContactAttrs == {"id", "first_name", "last_name", "email", "phone", "birthday",
                 "additional_info", "owner_id", "owner"}

ContactColumns == ContactAttrs \ {"owner"}

\* The declarative constructor Cls(**kwargs): a keyword that is no attribute
\* of the class raises TypeError; columns not given take their default.
NewUser(id, kwargs) ==
    IF DOMAIN kwargs \subseteq UserAttrs
    THEN [ok |-> TRUE,
          row |-> [c \in UserColumns |->
                     IF c = "id" THEN id
                     ELSE IF c \in DOMAIN kwargs THEN kwargs[c]
                     ELSE UserDefault(c)]]
    ELSE [ok |-> FALSE, row |-> None]

NewContact(id, kwargs) ==
    IF DOMAIN kwargs \subseteq ContactAttrs
    THEN [ok |-> TRUE,
          row |-> [c \in ContactColumns |->
                     IF c = "id" THEN id
                     ELSE IF c \in DOMAIN kwargs THEN kwargs[c]
                     ELSE None]]
    ELSE [ok |-> FALSE, row |-> None]

\* db.query(User).filter(User.<col> == v).first(): a matching row, or None.
UsersBy(col, v) == {u \in users : u[col] = v}

ContactsById(id) == {c \in contacts : c.id = id}

\* Primary keys are assigned by the datastore: any key no row holds.
FreeUserIds == (1..MaxUserId) \ {u.id : u \in users}

FreeContactIds == (1..MaxContactId) \ {c.id : c \in contacts}

(***************************************************************************)
(* utils / auth / schemas: imported by main.py                             *)
(***************************************************************************)
\* hash_password: a salted one-way digest of the plaintext.
hash_password(plaintext, salt) == <<"digest", salt, plaintext>>

\* verify_password: TRUE exactly for the plaintext the digest was made of.
verify_password(plaintext, digest) ==
    /\ Len(digest) = 3
    /\ digest[1] = "digest"
    /\ digest = hash_password(plaintext, digest[2])

\* Lifetime of an access token, in seconds.
ACCESS_TOKEN_EXPIRE == 900

\* create_access_token(data): the claims plus an expiry, signed.
create_access_token(data, t) ==
    [sub |-> data.sub, exp |-> t + ACCESS_TOKEN_EXPIRE, sig |-> "valid"]

\* verify_token(token): the claims, or InvalidToken (401) when the
\* signature is wrong or the token has expired.
verify_token(token, t) ==
    IF token.sig = "valid" /\ t < token.exp
    THEN [ok |-> TRUE, payload |-> [sub |-> token.sub]]
    ELSE [ok |-> FALSE, payload |-> [sub |-> None]]

\* Fields of the ContactCreate / ContactUpdate schemas.
SchemaFields == {"first_name", "last_name", "email", "phone", "birthday", "additional_info"}

RequiredFields == {"first_name", "last_name", "email", "phone"}

Restrict(f, S) == [k \in (DOMAIN f) \cap S |-> f[k]]

\* ContactCreate(**body): unknown keys are dropped, a missing required
\* field is a validation error (422).  dict(exclude_unset=True) is the
\* record of the fields that were supplied.
ContactCreate(body) ==
    IF RequiredFields \subseteq DOMAIN body
    THEN [ok |-> TRUE, dict |-> Restrict(body, SchemaFields)]
    ELSE [ok |-> FALSE, dict |-> Restrict(body, {})]

\* ContactUpdate(**body): every field optional.
ContactUpdate(body) == [ok |-> TRUE, dict |-> Restrict(body, SchemaFields)]

(***************************************************************************)
(* Requests                                                                *)
(***************************************************************************)
Uuids == {"uuid-1", "uuid-2"}

Salts == {"s1"}

UserCreates == [email : Emails, password : {"pw1"}]

\* Access tokens signed with the process-wide key that login never issued,
\* and a token with a wrong signature.
FarFuture == 1000000

CraftedTokens ==
    {[sub |-> "a@x.org", exp |-> FarFuture, sig |-> "forged"],
     [sub |-> None, exp |-> FarFuture, sig |-> "valid"],
     [sub |-> "c@x.org", exp |-> FarFuture, sig |-> "valid"]}

BodyAnna ==
    [first_name |-> "Anna", last_name |-> "Lee", email |-> "anna@x.org", phone |-> "111"]

BodyBob ==
    [first_name |-> "Bob", last_name |-> "Ray", email |-> "bob@x.org", phone |-> "222",
     birthday |-> "2024-06-15", owner_id |-> 99]

BodyBad == [first_name |-> "Eve"]

BodyJohan ==
    [first_name |-> "Johan", last_name |-> "Lee", email |-> "johan@x.org", phone |-> "333",
     birthday |-> "2024-06-20"]

BodyOld ==
    [first_name |-> "Bob", last_name |-> "Ray", email |-> "bob@x.org", phone |-> "222",
     birthday |-> "2024-06-09"]

\* Path segments and query strings of GET requests below /contacts/.
Segments == {"1", "2", "search", "birthdays"}

Queries == {[first_name |-> "an"], [last_name |-> "LEE", email |-> "X.ORG"],
            Restrict(BodyBad, {})}

CreateBodies == {BodyAnna, BodyBob, BodyBad}

UpdPhone == [phone |-> "999"]

UpdName == [first_name |-> "Zed", additional_info |-> "vip"]

UpdOwner == [owner_id |-> 99, birthday |-> None]

UpdateBodies == {UpdPhone, UpdName, UpdOwner}

(***************************************************************************)
(* main.py: helpers                                                        *)
(***************************************************************************)
Reply(op, status, req, out) ==
    resp' = [op |-> op, status |-> status, req |-> req, out |-> out]

\* RateLimiter(times=5, seconds=60) (line 95): one counter per client, which
\* the store drops when its window has elapsed.
RATE_TIMES == 5

RATE_SECONDS == 60

NoCounter == [n |-> 0, exp |-> 0]

Live(k, t) == IF k.n > 0 /\ t < k.exp THEN k ELSE NoCounter

RateLimited(client) == Live(limiter[client], now).n + 1 > RATE_TIMES

RateCount(client) ==
    LET k == Live(limiter[client], now)
    IN  IF k.n > 0
        THEN [limiter EXCEPT ![client] = [n |-> k.n + 1, exp |-> k.exp]]
        ELSE [limiter EXCEPT ![client] = [n |-> 1, exp |-> now + RATE_SECONDS]]

\* get_current_user without the test for a missing sub claim.
get_current_user_any_sub(token) ==
    LET v == verify_token(token, now)
        found == UsersBy("email", v.payload.sub)
    IN  IF ~v.ok THEN [status |-> 401, user |-> None]
        ELSE IF found = {} THEN [status |-> 404, user |-> None]
        ELSE [status |-> 200, user |-> CHOOSE u \in found : TRUE]

\* get_current_user (lines 83-92).
get_current_user(token) ==
    LET v == verify_token(token, now)
        found == UsersBy("email", v.payload.sub)
    IN  IF ~v.ok THEN [status |-> 401, user |-> None]
        ELSE IF v.payload.sub = None THEN [status |-> 401, user |-> None]
        ELSE IF found = {} THEN [status |-> 404, user |-> None]
        ELSE [status |-> 200, user |-> CHOOSE u \in found : TRUE]

(***************************************************************************)
(* main.py: route handlers                                                 *)
(***************************************************************************)
\* register without the lookup of an existing user.
register_unchecked(user, salt, uuid, commit) ==
    LET made(id) == NewUser(id, [email |-> user.email,
                                 hashed_password |-> hash_password(user.password, salt),
                                 verification_token |-> uuid])
    IN  /\ UNCHANGED <<contacts, limiter, now, ticks, issued, hosted, pending, created>>
        /\ IF ~made(0).ok
           THEN /\ Reply("register", 500, user, "TypeError")
                /\ UNCHANGED users
           ELSE IF ~commit
           THEN /\ Reply("register", 500, user, "commit failed")
                /\ UNCHANGED users
           ELSE \E id \in FreeUserIds :
                   /\ users' = users \cup {made(id).row}
                   /\ Reply("register", 200, user, made(id).row)

\* POST /register/ (lines 45-60).
register(user, salt, uuid, commit) ==
    LET existing == UsersBy("email", user.email)
        made(id) == NewUser(id, [email |-> user.email,
                                 hashed_password |-> hash_password(user.password, salt),
                                 verification_token |-> uuid])
    IN  /\ UNCHANGED <<contacts, limiter, now, ticks, issued, hosted, pending, created>>
        /\ IF existing # {}
           THEN /\ Reply("register", 409, user, "User with this email already exists")
                /\ UNCHANGED users
           ELSE IF ~made(0).ok
           THEN /\ Reply("register", 500, user, "TypeError")
                /\ UNCHANGED users
           ELSE IF ~commit
           THEN /\ Reply("register", 500, user, "commit failed")
                /\ UNCHANGED users
           ELSE \E id \in FreeUserIds :
                   /\ users' = users \cup {made(id).row}
                   /\ Reply("register", 200, user, made(id).row)

\* GET /verify-email/ (lines 62-70).  User.verification_token on line 64 is
\* an attribute lookup on the class: AttributeError when it maps none.
verify_email(token, commit) ==
    /\ UNCHANGED <<contacts, limiter, now, ticks, issued, hosted, pending, created>>
    /\ IF "verification_token" \notin UserAttrs
       THEN /\ Reply("verify_email", 500, token, "AttributeError")
            /\ UNCHANGED users
       ELSE LET found == UsersBy("verification_token", token)
            IN  IF found # {} /\ ~commit
                THEN /\ Reply("verify_email", 500, token, "commit failed")
                     /\ UNCHANGED users
                ELSE IF found # {}
                THEN LET user == CHOOSE u \in found : TRUE
                     IN  /\ users' = (users \ {user}) \cup
                                     {[user EXCEPT !["is_verified"] = 1,
                                                   !["verification_token"] = None]}
                         /\ Reply("verify_email", 200, token, "Email verified successfully")
                ELSE /\ Reply("verify_email", 400, token, "Invalid token")
                     /\ UNCHANGED users

\* login that marks the user verified once the password has matched.
login_verifies(username, password) ==
    LET found == UsersBy("email", username)
        user == CHOOSE u \in found : TRUE
        access_token == create_access_token([sub |-> user.email], now)
        req == [username |-> username, password |-> password]
    IN  /\ UNCHANGED <<contacts, limiter, now, ticks, hosted, pending, created>>
        /\ IF found = {} \/ ~verify_password(password, user.hashed_password)
           THEN /\ Reply("login", 401, req, "Incorrect email or password")
                /\ UNCHANGED <<users, issued>>
           ELSE /\ access_token \in issued \/ Cardinality(issued) < MaxIssued
                /\ users' = (users \ {user}) \cup {[user EXCEPT !["is_verified"] = 1]}
                /\ issued' = issued \cup {access_token}
                /\ Reply("login", 200, req, access_token)

\* login without the password test.
login_any_password(username, password) ==
    LET found == UsersBy("email", username)
        user == CHOOSE u \in found : TRUE
        access_token == create_access_token([sub |-> user.email], now)
        req == [username |-> username, password |-> password]
    IN  /\ UNCHANGED <<users, contacts, limiter, now, ticks, hosted, pending, created>>
        /\ IF found = {}
           THEN /\ Reply("login", 401, req, "Incorrect email or password")
                /\ UNCHANGED issued
           ELSE IF user.is_verified = 0
           THEN /\ Reply("login", 401, req, "Email not verified")
                /\ UNCHANGED issued
           ELSE /\ access_token \in issued \/ Cardinality(issued) < MaxIssued
                /\ issued' = issued \cup {access_token}
                /\ Reply("login", 200, req, access_token)

\* login without the is_verified test.
login_unverified(username, password) ==
    LET found == UsersBy("email", username)
        user == CHOOSE u \in found : TRUE
        access_token == create_access_token([sub |-> user.email], now)
        req == [username |-> username, password |-> password]
    IN  /\ UNCHANGED <<users, contacts, limiter, now, ticks, hosted, pending, created>>
        /\ IF found = {} \/ ~verify_password(password, user.hashed_password)
           THEN /\ Reply("login", 401, req, "Incorrect email or password")
                /\ UNCHANGED issued
           ELSE /\ access_token \in issued \/ Cardinality(issued) < MaxIssued
                /\ issued' = issued \cup {access_token}
                /\ Reply("login", 200, req, access_token)

\* login that also signs a token for an email no stored user has.
login_unknown_user(username, password) ==
    LET found == UsersBy("email", username)
        user == CHOOSE u \in found : TRUE
        access_token == create_access_token([sub |-> username], now)
        req == [username |-> username, password |-> password]
    IN  /\ UNCHANGED <<users, contacts, limiter, now, ticks, hosted, pending, created>>
        /\ IF found # {} /\ ~verify_password(password, user.hashed_password)
           THEN /\ Reply("login", 401, req, "Incorrect email or password")
                /\ UNCHANGED issued
           ELSE IF found # {} /\ user.is_verified = 0
           THEN /\ Reply("login", 401, req, "Email not verified")
                /\ UNCHANGED issued
           ELSE /\ access_token \in issued \/ Cardinality(issued) < MaxIssued
                /\ issued' = issued \cup {access_token}
                /\ Reply("login", 200, req, access_token)

\* POST /token (lines 72-81).
login(username, password) ==
    LET found == UsersBy("email", username)
        user == CHOOSE u \in found : TRUE
        access_token == create_access_token([sub |-> user.email], now)
        req == [username |-> username, password |-> password]
    IN  /\ UNCHANGED <<users, contacts, limiter, now, ticks, hosted, pending, created>>
        /\ IF found = {} \/ ~verify_password(password, user.hashed_password)
           THEN /\ Reply("login", 401, req, "Incorrect email or password")
                /\ UNCHANGED issued
           ELSE IF user.is_verified = 0
           THEN /\ Reply("login", 401, req, "Email not verified")
                /\ UNCHANGED issued
           ELSE /\ access_token \in issued \/ Cardinality(issued) < MaxIssued
                /\ issued' = issued \cup {access_token}
                /\ Reply("login", 200, req, access_token)

\* create_contact that passes the request body as it was sent to Contact.
create_contact_raw(client, token, body, commit) ==
    LET auth == get_current_user(token)
        contact == ContactCreate(body)
        made(id) == NewContact(id, body @@ [owner_id |-> auth.user.id])
        req == [client |-> client, token |-> token, body |-> body]
    IN  /\ UNCHANGED <<users, now, ticks, issued, hosted, pending>>
        /\ IF RateLimited(client)
           THEN /\ Reply("create_contact", 429, req, "Too Many Requests")
                /\ UNCHANGED <<contacts, limiter>>
           ELSE /\ limiter' = RateCount(client)
                /\ IF auth.status # 200
                   THEN /\ Reply("create_contact", auth.status, req, None)
                        /\ UNCHANGED contacts
                   ELSE IF ~contact.ok
                   THEN /\ Reply("create_contact", 422, req, None)
                        /\ UNCHANGED contacts
                   ELSE IF ~made(0).ok
                   THEN /\ Reply("create_contact", 500, req, "TypeError")
                        /\ UNCHANGED contacts
                   ELSE IF ~commit
                   THEN /\ Reply("create_contact", 500, req, "commit failed")
                        /\ UNCHANGED contacts
                   ELSE \E id \in FreeContactIds :
                           /\ contacts' = contacts \cup {made(id).row}
                           /\ Reply("create_contact", 200, req, made(id).row)

\* create_contact without the rate limiter among its dependencies.
create_contact_unlimited(client, token, body, commit) ==
    LET auth == get_current_user(token)
        contact == ContactCreate(body)
        made(id) == NewContact(id, contact.dict @@ [owner_id |-> auth.user.id])
        req == [client |-> client, token |-> token, body |-> body]
    IN  /\ UNCHANGED <<users, limiter, now, ticks, issued, hosted, pending>>
        /\ IF auth.status # 200
           THEN /\ Reply("create_contact", auth.status, req, None)
                /\ UNCHANGED contacts
           ELSE IF ~contact.ok
           THEN /\ Reply("create_contact", 422, req, None)
                /\ UNCHANGED contacts
           ELSE IF ~made(0).ok
           THEN /\ Reply("create_contact", 500, req, "TypeError")
                /\ UNCHANGED contacts
           ELSE IF ~commit
           THEN /\ Reply("create_contact", 500, req, "commit failed")
                /\ UNCHANGED contacts
           ELSE \E id \in FreeContactIds :
                   /\ contacts' = contacts \cup {made(id).row}
                   /\ Reply("create_contact", 200, req, made(id).row)

\* POST /contacts/ (lines 95-101), behind the rate limiter and get_current_user.
create_contact(client, token, body, commit) ==
    LET auth == get_current_user(token)
        contact == ContactCreate(body)
        made(id) == NewContact(id, contact.dict @@ [owner_id |-> auth.user.id])
        req == [client |-> client, token |-> token, body |-> body]
    IN  /\ UNCHANGED <<users, now, ticks, issued, hosted, pending>>
        /\ IF RateLimited(client)
           THEN /\ Reply("create_contact", 429, req, "Too Many Requests")
                /\ UNCHANGED <<contacts, limiter>>
           ELSE /\ limiter' = RateCount(client)
                /\ IF auth.status # 200
                   THEN /\ Reply("create_contact", auth.status, req, None)
                        /\ UNCHANGED contacts
                   ELSE IF ~contact.ok
                   THEN /\ Reply("create_contact", 422, req, None)
                        /\ UNCHANGED contacts
                   ELSE IF ~made(0).ok
                   THEN /\ Reply("create_contact", 500, req, "TypeError")
                        /\ UNCHANGED contacts
                   ELSE IF ~commit
                   THEN /\ Reply("create_contact", 500, req, "commit failed")
                        /\ UNCHANGED contacts
                   ELSE \E id \in FreeContactIds :
                           /\ contacts' = contacts \cup {made(id).row}
                           /\ Reply("create_contact", 200, req, made(id).row)

\* GET /contacts/ (lines 104-106).
get_contacts ==
    /\ UNCHANGED <<users, contacts, limiter, now, ticks, issued, hosted, pending, created>>
    /\ Reply("get_contacts", 200, None, contacts)

\* GET /contacts/{contact_id} (lines 109-114).
get_contact(contact_id) ==
    LET found == ContactsById(contact_id)
    IN  /\ UNCHANGED <<users, contacts, limiter, now, ticks, issued, hosted, pending, created>>
        /\ IF found = {}
           THEN Reply("get_contact", 404, contact_id, "Contact not found")
           ELSE Reply("get_contact", 200, contact_id, CHOOSE c \in found : TRUE)

\* The path parameter contact_id: int of line 110: the text of the path
\* segment converted to an integer, a validation error (422) when it is not
\* the decimal form of one.
Decimals == <<"1", "2", "3">>

ParseInt(text) ==
    LET hits == {i \in 1..Len(Decimals) : Decimals[i] = text}
    IN  IF hits = {}
        THEN [ok |-> FALSE, value |-> 0]
        ELSE [ok |-> TRUE, value |-> CHOOSE i \in hits : TRUE]

\* A GET request for /contacts/<segment>[/]?<query>.  The GET routes of the
\* application are /verify-email/, /contacts/ and /contacts/{contact_id}
\* (lines 62, 104 and 109): every path with one segment after /contacts/ is
\* served by get_contact (a trailing slash is redirected to the path without
\* it), which ignores the query string.
get_contacts_path(segment, query) ==
    LET contact_id == ParseInt(segment)
        found == ContactsById(contact_id.value)
        req == [segment |-> segment, query |-> query]
    IN  /\ UNCHANGED <<users, contacts, limiter, now, ticks, issued, hosted, pending, created>>
        /\ IF ~contact_id.ok
           THEN Reply("GET /contacts/{contact_id}", 422, req, "value is not a valid integer")
           ELSE IF found = {}
           THEN Reply("GET /contacts/{contact_id}", 404, req, "Contact not found")
           ELSE Reply("GET /contacts/{contact_id}", 200, req, CHOOSE c \in found : TRUE)

\* setattr(db_contact, key, value) for every supplied field (lines 123-124).
SetAttrs(row, dict) ==
    [c \in DOMAIN row |-> IF c \in DOMAIN dict THEN dict[c] ELSE row[c]]

\* update_contact that applies the request body as it was sent.
update_contact_raw(contact_id, body, commit) ==
    LET found == ContactsById(contact_id)
        db_contact == CHOOSE c \in found : TRUE
        updated == SetAttrs(db_contact, body)
        req == [id |-> contact_id, body |-> body]
    IN  /\ UNCHANGED <<users, limiter, now, ticks, issued, hosted, pending, created>>
        /\ IF found = {}
           THEN /\ Reply("update_contact", 404, req, "Contact not found")
                /\ UNCHANGED contacts
           ELSE IF ~commit
           THEN /\ Reply("update_contact", 500, req, "commit failed")
                /\ UNCHANGED contacts
           ELSE /\ contacts' = (contacts \ {db_contact}) \cup {updated}
                /\ Reply("update_contact", 200, req, updated)

\* update_contact that sets the fields the request left out to None.
update_contact_replace(contact_id, body, commit) ==
    LET found == ContactsById(contact_id)
        db_contact == CHOOSE c \in found : TRUE
        contact == ContactUpdate(body)
        updated == [c \in DOMAIN db_contact |->
                      IF c \in DOMAIN contact.dict THEN contact.dict[c]
                      ELSE IF c \in SchemaFields THEN None
                      ELSE db_contact[c]]
        req == [id |-> contact_id, body |-> body]
    IN  /\ UNCHANGED <<users, limiter, now, ticks, issued, hosted, pending, created>>
        /\ IF found = {}
           THEN /\ Reply("update_contact", 404, req, "Contact not found")
                /\ UNCHANGED contacts
           ELSE IF ~commit
           THEN /\ Reply("update_contact", 500, req, "commit failed")
                /\ UNCHANGED contacts
           ELSE /\ contacts' = (contacts \ {db_contact}) \cup {updated}
                /\ Reply("update_contact", 200, req, updated)

\* PUT /contacts/{contact_id} (lines 117-128).
update_contact(contact_id, body, commit) ==
    LET found == ContactsById(contact_id)
        db_contact == CHOOSE c \in found : TRUE
        contact == ContactUpdate(body)
        updated == SetAttrs(db_contact, contact.dict)
        req == [id |-> contact_id, body |-> body]
    IN  /\ UNCHANGED <<users, limiter, now, ticks, issued, hosted, pending, created>>
        /\ IF found = {}
           THEN /\ Reply("update_contact", 404, req, "Contact not found")
                /\ UNCHANGED contacts
           ELSE IF ~commit
           THEN /\ Reply("update_contact", 500, req, "commit failed")
                /\ UNCHANGED contacts
           ELSE /\ contacts' = (contacts \ {db_contact}) \cup {updated}
                /\ Reply("update_contact", 200, req, updated)

\* delete_contact that answers ok without removing the row.
delete_contact_kept(contact_id, commit) ==
    LET found == ContactsById(contact_id)
    IN  /\ UNCHANGED <<users, contacts, limiter, now, ticks, issued, hosted, pending, created>>
        /\ IF found = {}
           THEN Reply("delete_contact", 404, contact_id, "Contact not found")
           ELSE IF ~commit
           THEN Reply("delete_contact", 500, contact_id, "commit failed")
           ELSE Reply("delete_contact", 200, contact_id, "ok")

\* DELETE /contacts/{contact_id} (lines 131-139).
delete_contact(contact_id, commit) ==
    LET found == ContactsById(contact_id)
        db_contact == CHOOSE c \in found : TRUE
    IN  /\ UNCHANGED <<users, limiter, now, ticks, issued, hosted, pending, created>>
        /\ IF found = {}
           THEN /\ Reply("delete_contact", 404, contact_id, "Contact not found")
                /\ UNCHANGED contacts
           ELSE IF ~commit
           THEN /\ Reply("delete_contact", 500, contact_id, "commit failed")
                /\ UNCHANGED contacts
           ELSE /\ contacts' = contacts \ {db_contact}
                /\ Reply("delete_contact", 200, contact_id, "ok")

\* update_avatar that stores the url in the email column.
update_avatar_email(token, upload, commit) ==
    LET auth == get_current_user(token)
        current_user == auth.user
    IN  /\ UNCHANGED <<contacts, limiter, now, ticks, issued, pending, created>>
        /\ IF auth.status # 200
           THEN /\ Reply("update_avatar", auth.status, token, None)
                /\ UNCHANGED <<users, hosted>>
           ELSE IF ~upload.ok
           THEN /\ Reply("update_avatar", 500, token, "upload error")
                /\ UNCHANGED <<users, hosted>>
           ELSE IF ~commit
           THEN /\ hosted' = hosted \cup {upload.url}
                /\ Reply("update_avatar", 500, token, "commit failed")
                /\ UNCHANGED users
           ELSE /\ hosted' = hosted \cup {upload.url}
                /\ users' = (users \ {current_user}) \cup
                            {[current_user EXCEPT !["email"] = upload.url]}
                /\ Reply("update_avatar", 200, token, upload.url)

\* update_avatar that stores the url on every user.
update_avatar_all(token, upload, commit) ==
    LET auth == get_current_user(token)
        current_user == auth.user
    IN  /\ UNCHANGED <<contacts, limiter, now, ticks, issued, pending, created>>
        /\ IF auth.status # 200
           THEN /\ Reply("update_avatar", auth.status, token, None)
                /\ UNCHANGED <<users, hosted>>
           ELSE IF ~upload.ok
           THEN /\ Reply("update_avatar", 500, token, "upload error")
                /\ UNCHANGED <<users, hosted>>
           ELSE IF ~commit
           THEN /\ hosted' = hosted \cup {upload.url}
                /\ Reply("update_avatar", 500, token, "commit failed")
                /\ UNCHANGED users
           ELSE /\ hosted' = hosted \cup {upload.url}
                /\ users' = {[u EXCEPT !["avatar_url"] = upload.url] : u \in users}
                /\ Reply("update_avatar", 200, token, upload.url)

\* PUT /users/avatar/ (lines 142-147), behind get_current_user; upload is
\* the outcome of cloudinary.uploader.upload: a result with a url, or an error.
\* The image host stores the file before the handler commits the url.
update_avatar(token, upload, commit) ==
    LET auth == get_current_user(token)
        current_user == auth.user
    IN  /\ UNCHANGED <<contacts, limiter, now, ticks, issued, pending, created>>
        /\ IF auth.status # 200
           THEN /\ Reply("update_avatar", auth.status, token, None)
                /\ UNCHANGED <<users, hosted>>
           ELSE IF ~upload.ok
           THEN /\ Reply("update_avatar", 500, token, "upload error")
                /\ UNCHANGED <<users, hosted>>
           ELSE IF ~commit
           THEN /\ hosted' = hosted \cup {upload.url}
                /\ Reply("update_avatar", 500, token, "commit failed")
                /\ UNCHANGED users
           ELSE /\ hosted' = hosted \cup {upload.url}
                /\ users' = (users \ {current_user}) \cup
                            {[current_user EXCEPT !["avatar_url"] = upload.url]}
                /\ Reply("update_avatar", 200, token, upload.url)

(***************************************************************************)
(* main.py: handlers of concurrent requests, split at their commit         *)
(***************************************************************************)
\* Two requests that the server handles concurrently, each in a session of
\* its own: a slot holds the request, what its handler read, whether the
\* other request was in flight at that moment, and the status of its answer
\* (0 while the handler has not answered).
Slots == {"r1", "r2"}

Idle == [op |-> "idle", req |-> None, read |-> None, overlap |-> FALSE, status |-> 0]

InFlight(slot) == pending[slot].op # "idle" /\ pending[slot].status = 0

Overlaps(slot) == \E other \in Slots \ {slot} : InFlight(other)

Started(slot, op, req, read, status) ==
    pending' = [pending EXCEPT ![slot] = [op |-> op, req |-> req, read |-> read,
                                          overlap |-> Overlaps(slot), status |-> status]]

Answered(slot, status) == pending' = [pending EXCEPT ![slot].status = status]

\* register, lines 47-49: the lookup of an existing user.
register_read(slot, user) ==
    LET existing == UsersBy("email", user.email)
    IN  /\ pending[slot] = Idle
        /\ UNCHANGED <<users, contacts, limiter, now, ticks, issued, hosted, created>>
        /\ IF existing # {}
           THEN /\ Started(slot, "register", user, "exists", 409)
                /\ Reply("register", 409, user, "User with this email already exists")
           ELSE /\ Started(slot, "register", user, "no such user", 0)
                /\ Reply("register_read", 0, user, None)

\* register, lines 51-60: the constructor, then the INSERT, which the unique
\* index on users.email (models.py line 9) refuses with IntegrityError when
\* a row with the email has been committed since the lookup.
register_commit(slot, salt, uuid, commit) ==
    LET user == pending[slot].req
        made(id) == NewUser(id, [email |-> user.email,
                                 hashed_password |-> hash_password(user.password, salt),
                                 verification_token |-> uuid])
    IN  /\ pending[slot].op = "register"
        /\ InFlight(slot)
        /\ UNCHANGED <<contacts, limiter, now, ticks, issued, hosted, created>>
        /\ IF ~made(0).ok
           THEN /\ Answered(slot, 500)
                /\ Reply("register", 500, user, "TypeError")
                /\ UNCHANGED users
           ELSE IF UsersBy("email", user.email) # {}
           THEN /\ Answered(slot, 500)
                /\ Reply("register", 500, user, "IntegrityError")
                /\ UNCHANGED users
           ELSE IF ~commit
           THEN /\ Answered(slot, 500)
                /\ Reply("register", 500, user, "commit failed")
                /\ UNCHANGED users
           ELSE \E id \in FreeUserIds :
                   /\ Answered(slot, 200)
                   /\ users' = users \cup {made(id).row}
                   /\ Reply("register", 200, user, made(id).row)

\* update_contact, lines 119-121: the lookup of the contact.
update_contact_read(slot, contact_id, body) ==
    LET found == ContactsById(contact_id)
        req == [id |-> contact_id, body |-> body]
    IN  /\ pending[slot] = Idle
        /\ UNCHANGED <<users, contacts, limiter, now, ticks, issued, hosted, created>>
        /\ IF found = {}
           THEN /\ Started(slot, "update_contact", req, None, 404)
                /\ Reply("update_contact", 404, req, "Contact not found")
           ELSE /\ Started(slot, "update_contact", req, CHOOSE c \in found : TRUE, 0)
                /\ Reply("update_contact_read", 0, req, None)

\* update_contact that stores the object it holds when its row is gone.
update_contact_commit_merge(slot, commit) ==
    LET req == pending[slot].req
        db_contact == pending[slot].read
        updated == SetAttrs(db_contact, ContactUpdate(req.body).dict)
    IN  /\ pending[slot].op = "update_contact"
        /\ InFlight(slot)
        /\ UNCHANGED <<users, limiter, now, ticks, issued, hosted, created>>
        /\ IF ~commit
           THEN /\ Answered(slot, 500)
                /\ Reply("update_contact", 500, req, "commit failed")
                /\ UNCHANGED contacts
           ELSE /\ Answered(slot, 200)
                /\ contacts' = (contacts \ ContactsById(req.id)) \cup {updated}
                /\ Reply("update_contact", 200, req, updated)

\* update_contact, lines 123-128: setattr on the object that was read, then
\* commit and refresh.  The flush is an UPDATE of the changed columns of the
\* row with the object's id, and the session raises StaleDataError when it
\* matches no row; with nothing changed the commit sends nothing and refresh
\* raises InvalidRequestError when the row cannot be read back.
update_contact_commit(slot, commit) ==
    LET req == pending[slot].req
        db_contact == pending[slot].read
        dict == ContactUpdate(req.body).dict
        changed == {k \in DOMAIN dict : dict[k] # db_contact[k]}
        stored == ContactsById(req.id)
        row == CHOOSE c \in stored : TRUE
        updated == SetAttrs(row, Restrict(dict, changed))
    IN  /\ pending[slot].op = "update_contact"
        /\ InFlight(slot)
        /\ UNCHANGED <<users, limiter, now, ticks, issued, hosted, created>>
        /\ IF stored = {}
           THEN /\ Answered(slot, 500)
                /\ Reply("update_contact", 500, req,
                         IF changed # {} THEN "StaleDataError" ELSE "InvalidRequestError")
                /\ UNCHANGED contacts
           ELSE IF ~commit
           THEN /\ Answered(slot, 500)
                /\ Reply("update_contact", 500, req, "commit failed")
                /\ UNCHANGED contacts
           ELSE /\ Answered(slot, 200)
                /\ contacts' = (contacts \ {row}) \cup {updated}
                /\ Reply("update_contact", 200, req, updated)

(***************************************************************************)
(* Specification                                                           *)
(***************************************************************************)
\* A users table as the schema of models.py allows it: ids and emails are
\* unique, is_verified is 0 or 1.
StoredUser(email, id, verified) ==
    [id |-> id, email |-> email, hashed_password |-> hash_password("pw1", "s0"),
     is_verified |-> verified, avatar_url |-> None]

UsersTables ==
    {A \cup B : A \in {{}, {StoredUser("a@x.org", 1, 0)}, {StoredUser("a@x.org", 1, 1)}},
                B \in {{}, {StoredUser("b@x.org", 2, 0)}, {StoredUser("b@x.org", 2, 1)}}}

UploadsOf(urls) == [ok : {TRUE}, url : urls] \cup [ok : {FALSE}, url : {None}]

InitTables(table, rows) ==
    /\ users = table
    /\ contacts = rows
    /\ limiter = [c \in Clients |-> NoCounter]
    /\ now = 0
    /\ ticks = 0
    /\ issued = {}
    /\ resp = [op |-> "start", status |-> 0, req |-> None, out |-> None]
    /\ hosted = {}
    /\ pending = [s \in Slots |-> Idle]
    /\ created = [c \in Clients |-> <<>>]

InitWith(table) == InitTables(table, {})

\* A users table with one verified and one unverified user.
Init == InitWith({StoredUser("a@x.org", 1, 1), StoredUser("b@x.org", 2, 0)})

PresentedTokens == issued \cup CraftedTokens

\* Spec, SpecAccounts, SpecContacts and SpecOwners are runs in which every
\* db.commit() succeeds and every handler runs from its first line to its
\* response without another request in between; SpecFaults,
\* SpecRegisterRaces and SpecContactRaces lift the two restrictions.

\* Time passes; the counter store drops the counters whose window is over.
Advance(d) ==
    /\ now' = now + d
    /\ limiter' = [c \in Clients |-> Live(limiter[c], now + d)]
    /\ ticks' = ticks + 1
    /\ Reply("tick", 0, None, None)
    /\ UNCHANGED <<users, contacts, issued, hosted, pending>>

Tick ==
    /\ ticks < MaxTicks
    /\ \E d \in {RATE_SECONDS \div 2, ACCESS_TOKEN_EXPIRE} : Advance(d)
    /\ UNCHANGED created

Register == \E user \in UserCreates, salt \in Salts, uuid \in Uuids :
                register(user, salt, uuid, TRUE)

VerifyEmail == \E token \in Uuids : verify_email(token, TRUE)

Login == \E username \in Emails, password \in Passwords :
             login(username, password)

CreateContactOf(bodies) ==
    \E client \in Clients, token \in PresentedTokens, body \in bodies :
        /\ create_contact(client, token, body, TRUE)
        /\ UNCHANGED created

CreateContact == CreateContactOf({BodyBob})

GetContacts == get_contacts

GetContact == \E id \in 1..MaxContactId : get_contact(id)

UpdateContactOf(bodies) ==
    \E id \in 1..MaxContactId, body \in bodies : update_contact(id, body, TRUE)

UpdateContact == UpdateContactOf({UpdOwner})

DeleteContact == \E id \in 1..MaxContactId : delete_contact(id, TRUE)

UpdateAvatarOf(urls) ==
    \E token \in PresentedTokens, upload \in UploadsOf(urls) :
        update_avatar(token, upload, TRUE)

UpdateAvatar == UpdateAvatarOf({"http://img/1"})

Next ==
    \/ Register
    \/ VerifyEmail
    \/ Login
    \/ CreateContact
    \/ GetContacts
    \/ GetContact
    \/ UpdateContact
    \/ DeleteContact
    \/ UpdateAvatar
    \/ Tick

Spec == Init /\ [][Next]_vars

\* The account routes alone, from every users table of UsersTables and with
\* every upload outcome.
InitAccounts == \E table \in UsersTables : InitWith(table)

UpdateAvatarAny == UpdateAvatarOf(Urls)

NextAccounts ==
    \/ Register
    \/ VerifyEmail
    \/ Login
    \/ UpdateAvatarAny
    \/ Tick

SpecAccounts == InitAccounts /\ [][NextAccounts]_vars

\* The contact routes within one rate-limit window and one token lifetime,
\* with every request body of CreateBodies and UpdateBodies.
CreateContactAny == CreateContactOf(CreateBodies)

UpdateContactAny == UpdateContactOf(UpdateBodies)

NextContacts ==
    \/ Login
    \/ CreateContactAny
    \/ GetContacts
    \/ GetContact
    \/ UpdateContactAny
    \/ DeleteContact

SpecContacts == Init /\ [][NextContacts]_vars

\* The routes that write contacts, within one rate-limit window and one token
\* lifetime, from a users table with two verified users.
InitOwners == InitWith({StoredUser("a@x.org", 1, 1), StoredUser("b@x.org", 2, 1)})

NextOwners ==
    \/ Login
    \/ CreateContact
    \/ UpdateContact
    \/ DeleteContact

SpecOwners == InitOwners /\ [][NextOwners]_vars

\* The contact creations up to the start of a second rate-limit window, the
\* clock advancing by half a window; created logs a client's creations of
\* the last RATE_SECONDS.
Recent(log, t) ==
    LET Young(x) == t - x < RATE_SECONDS
    IN  SelectSeq(log, Young)

ForgedTokens == {t \in CraftedTokens : t.sig # "valid"}

CreateContactLogged ==
    \E client \in Clients, token \in issued \cup ForgedTokens :
        /\ create_contact(client, token, BodyBob, TRUE)
        /\ created' = [created EXCEPT ![client] =
                          IF resp'.status = 200 THEN Append(@, now) ELSE @]

HalfWindow ==
    /\ now < RATE_SECONDS
    /\ Advance(RATE_SECONDS \div 2)
    /\ created' = [c \in Clients |-> Recent(created[c], now + RATE_SECONDS \div 2)]

NextLimiter ==
    \/ Login
    \/ CreateContactLogged
    \/ DeleteContact
    \/ HalfWindow

SpecLimiter == Init /\ [][NextLimiter]_vars

\* Every route with a db.commit() that may fail (the handler then ends in an
\* unhandled exception, and the session is closed without having stored
\* anything) and an upload that may fail.
RegisterFaulty ==
    \E user \in UserCreates, salt \in Salts, uuid \in Uuids, commit \in BOOLEAN :
        register(user, salt, uuid, commit)

VerifyEmailFaulty == \E token \in Uuids, commit \in BOOLEAN : verify_email(token, commit)

CreateContactFaulty ==
    \E client \in Clients, token \in PresentedTokens, body \in {BodyBob, BodyBad},
       commit \in BOOLEAN :
        /\ create_contact(client, token, body, commit)
        /\ UNCHANGED created

UpdateContactFaulty ==
    \E id \in 1..MaxContactId, commit \in BOOLEAN : update_contact(id, UpdPhone, commit)

DeleteContactFaulty ==
    \E id \in 1..MaxContactId, commit \in BOOLEAN : delete_contact(id, commit)

UpdateAvatarFaulty ==
    \E token \in PresentedTokens, upload \in UploadsOf(Urls), commit \in BOOLEAN :
        update_avatar(token, upload, commit)

NextFaults ==
    \/ RegisterFaulty
    \/ VerifyEmailFaulty
    \/ Login
    \/ CreateContactFaulty
    \/ UpdateContactFaulty
    \/ DeleteContactFaulty
    \/ UpdateAvatarFaulty

SpecFaults == Init /\ [][NextFaults]_vars

\* Two concurrent register requests, from every users table of UsersTables.
RegisterRead == \E slot \in Slots, user \in UserCreates : register_read(slot, user)

RegisterCommit ==
    \E slot \in Slots, salt \in Salts, uuid \in Uuids : register_commit(slot, salt, uuid, TRUE)

NextRegisterRaces ==
    \/ RegisterRead
    \/ RegisterCommit

SpecRegisterRaces == InitAccounts /\ [][NextRegisterRaces]_vars

\* Two concurrent update_contact requests next to delete_contact, from a
\* contacts table that holds contacts the verified user has created.
StoredContact(id) ==
    NewContact(id, ContactCreate(BodyAnna).dict @@ [owner_id |-> 1]).row

InitContactRaces ==
    \E ids \in SUBSET (1..MaxContactId) :
        InitTables({StoredUser("a@x.org", 1, 1), StoredUser("b@x.org", 2, 0)},
                   {StoredContact(id) : id \in ids})

UpdateContactRead ==
    \E slot \in Slots, id \in 1..MaxContactId, body \in {UpdPhone, Restrict(UpdPhone, {})} :
        update_contact_read(slot, id, body)

UpdateContactCommit == \E slot \in Slots : update_contact_commit(slot, TRUE)

NextContactRaces ==
    \/ DeleteContact
    \/ UpdateContactRead
    \/ UpdateContactCommit

SpecContactRaces == InitContactRaces /\ [][NextContactRaces]_vars

\* The GET requests below /contacts/ on tables that create_contact has
\* filled.
CreateContactDated == CreateContactOf({BodyAnna, BodyBob, BodyJohan, BodyOld})

GetContactsPath ==
    \E segment \in Segments, query \in Queries : get_contacts_path(segment, query)

NextRoutes ==
    \/ Login
    \/ CreateContactDated
    \/ DeleteContact
    \/ GetContactsPath

SpecRoutes == Init /\ [][NextRoutes]_vars

(***************************************************************************)
(* Properties                                                              *)
(***************************************************************************)
EmailTaken(email) == \E u \in users : u.email = email

HasToken(u, token) ==
    /\ "verification_token" \in DOMAIN u
    /\ u["verification_token"] = token

\* C1: a register call for the email of a stored user answers 409 and leaves
\* the users table as it was, and no two stored users ever share an email.
C1_RegisterStep ==
    (resp'.op = "register" /\ EmailTaken(resp'.req.email))
        => (resp'.status = 409 /\ users' = users)

C1_EmailsUnique == \A u, v \in users : u.email = v.email => u = v

C1_DuplicateEmailRejected == [][C1_RegisterStep]_vars /\ []C1_EmailsUnique

C1_Witness ==
    /\ resp.op = "register"
    /\ resp.status = 409
    /\ \E u \in users : u.email = resp.req.email

\* C2: a register call for an email no stored user has succeeds: it adds
\* exactly one user, with that email, is_verified = 0, a verification token
\* and no avatar_url, and returns it.
C2_RegisterStep ==
    (resp'.op = "register" /\ ~EmailTaken(resp'.req.email))
        => /\ resp'.status = 200
           /\ \E u \in users' :
                 /\ users' = users \cup {u}
                 /\ u \notin users
                 /\ u.email = resp'.req.email
                 /\ u.is_verified = 0
                 /\ u.avatar_url = None
                 /\ "verification_token" \in DOMAIN u
                 /\ u["verification_token"] # None
                 /\ resp'.out = u

C2_RegisterCreatesUser == [][C2_RegisterStep]_vars

\* C3: a login call for a stored user whose is_verified is 0 answers 401 and
\* issues no access token, whatever the password.
C3_LoginStep ==
    (resp'.op = "login"
        /\ \E u \in users : u.email = resp'.req.username /\ u.is_verified = 0)
        => (resp'.status = 401 /\ issued' = issued)

C3_UnverifiedCannotLogin == [][C3_LoginStep]_vars

C3_Witness ==
    /\ resp.op = "login"
    /\ resp.status = 401
    /\ \E u \in users :
          /\ u.email = resp.req.username
          /\ u.is_verified = 0
          /\ verify_password(resp.req.password, u.hashed_password)

\* C4: verify_email with the verification token stored on a user answers 200,
\* sets that user's is_verified and clears the token; with a token no user
\* stores it answers 400 and changes no user.
C4_VerifyStep ==
    resp'.op = "verify_email"
        => IF \E u \in users : HasToken(u, resp'.req)
           THEN /\ resp'.status = 200
                /\ \E u \in users :
                      /\ HasToken(u, resp'.req)
                      /\ users' = (users \ {u}) \cup
                                  {[u EXCEPT !["is_verified"] = 1,
                                             !["verification_token"] = None]}
           ELSE /\ resp'.status = 400
                /\ users' = users

C4_VerifyEmailOnce == [][C4_VerifyStep]_vars

\* C5: is_verified of a stored user goes from 0 to 1 only in a successful
\* verify_email step that presented the token stored on that user; no step
\* takes it back to 0, and a user added by a step starts with 0.
C5_VerifiedStep ==
    /\ \A u \in users : \A v \in users' :
          u.id = v.id =>
             /\ (u.is_verified = 0 /\ v.is_verified # 0)
                   => /\ resp'.op = "verify_email"
                      /\ resp'.status = 200
                      /\ HasToken(u, resp'.req)
             /\ u.is_verified # 0 => v.is_verified # 0
    /\ \A v \in users' : (\A u \in users : u.id # v.id) => v.is_verified = 0

C5_VerifiedOnlyByVerifyEmail == [][C5_VerifiedStep]_vars

C5_Witness ==
    /\ resp.op = "update_avatar"
    /\ resp.status = 200
    /\ \E u \in users : u.avatar_url = resp.out /\ u.is_verified = 1
    /\ \E w \in users : w.is_verified = 0

\* C6: a login with the password of a verified user answers 200 with a token
\* whose sub is the email logged in with; get_current_user on an issued,
\* unexpired token finds the stored user with that email; a login with an
\* unknown email or a wrong password answers 401 and issues no token.
C6_LoginResult ==
    resp.op = "login" =>
       LET found == {u \in users : u.email = resp.req.username}
           right == {u \in found : verify_password(resp.req.password, u.hashed_password)}
       IN  IF right = {}
           THEN /\ resp.status = 401
                /\ resp.out = "Incorrect email or password"
           ELSE (\E u \in right : u.is_verified # 0)
                   => /\ resp.status = 200
                      /\ resp.out \in issued
                      /\ resp.out.sub = resp.req.username

C6_TokensResolve ==
    \A t \in issued :
       now < t.exp =>
          /\ get_current_user(t).status = 200
          /\ get_current_user(t).user \in users
          /\ get_current_user(t).user.email = t.sub

C6_FailedLoginStep ==
    (resp'.op = "login" /\ resp'.status = 401) => issued' = issued

C6_LoginRoundTrip ==
    /\ []C6_LoginResult
    /\ []C6_TokensResolve
    /\ [][C6_FailedLoginStep]_vars

C6_Witness ==
    /\ resp.op = "login"
    /\ resp.status = 200
    /\ get_current_user(resp.out).status = 200
    /\ get_current_user(resp.out).user.email = resp.req.username

ContactIds(table) == {c.id : c \in table}

\* C7: a successful create_contact adds one contact whose owner_id is the id
\* of the user the presented token resolves to, whatever the body holds, and
\* no step changes the owner_id of a stored contact.
C7_OwnerStep ==
    /\ (resp'.op = "create_contact" /\ resp'.status = 200)
          => \E c \in contacts' :
                /\ c \notin contacts
                /\ contacts' = contacts \cup {c}
                /\ resp'.out = c
                /\ \E u \in users : u.email = resp'.req.token.sub /\ c.owner_id = u.id
    /\ \A c \in contacts : \A d \in contacts' : c.id = d.id => d.owner_id = c.owner_id

C7_OwnerFixed == [][C7_OwnerStep]_vars

C7_Witness ==
    /\ resp.op = "update_contact"
    /\ resp.status = 200
    /\ "owner_id" \in DOMAIN resp.req.body
    /\ resp.out.owner_id # resp.req.body.owner_id
    /\ \E u \in users : u.id = resp.out.owner_id

\* C8: behind get_current_user, a token with a wrong signature, an expired
\* token or a token without sub answers 401, and a token whose sub is no
\* stored user's email answers 404; in both cases the step adds no contact
\* and changes no user.
GuardedToken(r) == IF r.op = "create_contact" THEN r.req.token ELSE r.req

C8_GuardStep ==
    (resp'.op \in {"create_contact", "update_avatar"} /\ resp'.status # 429)
       => LET token == GuardedToken(resp')
          IN  IF token.sig # "valid" \/ ~(now < token.exp) \/ token.sub = None
              THEN resp'.status = 401 /\ contacts' = contacts /\ users' = users
              ELSE IF ~EmailTaken(token.sub)
              THEN resp'.status = 404 /\ contacts' = contacts /\ users' = users
              ELSE resp'.status \notin {401, 404}

C8_GuardRejects == [][C8_GuardStep]_vars

C8_Witness ==
    /\ resp.op = "create_contact"
    /\ resp.status = 401
    /\ resp.req.token \in issued
    /\ ~(now < resp.req.token.exp)
    /\ resp.req.body = BodyBob

\* C9: update_contact on a stored id answers 200 and replaces that contact
\* by one that has the supplied schema fields set to the supplied values and
\* every other column as before; on an id not stored it answers 404 and the
\* contacts are unchanged; in both cases the users are unchanged.
C9_UpdateStep ==
    resp'.op = "update_contact" =>
       LET id == resp'.req.id
           body == resp'.req.body
           given == (DOMAIN body) \cap SchemaFields
       IN  /\ users' = users
           /\ IF id \in ContactIds(contacts)
              THEN /\ resp'.status = 200
                   /\ \E c \in contacts : \E d \in contacts' :
                         /\ c.id = id
                         /\ d.id = id
                         /\ contacts' \ {d} = contacts \ {c}
                         /\ \A f \in ContactColumns :
                               d[f] = IF f \in given THEN body[f] ELSE c[f]
                         /\ resp'.out = d
              ELSE /\ resp'.status = 404
                   /\ contacts' = contacts

C9_UpdateFrame == [][C9_UpdateStep]_vars

C9_Witness ==
    /\ resp.op = "update_contact"
    /\ resp.status = 200
    /\ resp.req.body = UpdPhone
    /\ resp.out.phone = "999"
    /\ resp.out.first_name \in {"Anna", "Bob"}
    /\ resp.out \in contacts
    /\ Cardinality(contacts) = 2

\* C10: delete_contact on an id not stored answers 404 and leaves the
\* contacts unchanged; on a stored id it answers 200 and removes exactly
\* that contact; get_contact answers 404 exactly when no contact has the id,
\* and an id becomes stored again only by a successful create_contact.
C10_DeleteStep ==
    /\ resp'.op = "delete_contact" =>
          IF resp'.req \in ContactIds(contacts)
          THEN /\ resp'.status = 200
               /\ contacts' = {c \in contacts : c.id # resp'.req}
               /\ Cardinality(contacts') = Cardinality(contacts) - 1
          ELSE /\ resp'.status = 404
               /\ contacts' = contacts
    /\ \A id \in ContactIds(contacts') \ ContactIds(contacts) :
          resp'.op = "create_contact" /\ resp'.status = 200

C10_GetResult ==
    resp.op = "get_contact" =>
       IF resp.req \in ContactIds(contacts)
       THEN resp.status = 200 /\ resp.out \in contacts /\ resp.out.id = resp.req
       ELSE resp.status = 404

C10_DeleteThenGone == [][C10_DeleteStep]_vars /\ []C10_GetResult

C10_Witness ==
    /\ resp.op = "delete_contact"
    /\ resp.status = 200
    /\ resp.req \notin ContactIds(contacts)
    /\ contacts # {}

C11_LimiterStep ==
    resp'.op = "create_contact" =>
        LET c == resp'.req.client
            k == Live(limiter[c], now)
            auth == get_current_user(resp'.req.token)
        IN  /\ k.n >= RATE_TIMES =>
                  /\ resp'.status = 429
                  /\ contacts' = contacts
                  /\ limiter' = limiter
            /\ k.n < RATE_TIMES =>
                  /\ resp'.status # 429
                  /\ limiter'[c].n = k.n + 1
                  /\ limiter'[c].exp = IF k.n = 0 THEN now + RATE_SECONDS ELSE k.exp
                  /\ (auth.status = 200 /\ RequiredFields \subseteq DOMAIN resp'.req.body)
                        => /\ resp'.status = 200
                           /\ Cardinality(contacts') = Cardinality(contacts) + 1

InWindow(c) ==
    LET k == Live(limiter[c], now)
    IN  {i \in 1..Len(created[c]) : k.n > 0 /\ created[c][i] >= k.exp - RATE_SECONDS}

C11_AtMostFivePerWindow ==
    \A c \in Clients :
        /\ Cardinality(InWindow(c)) <= limiter[c].n
        /\ limiter[c].n <= RATE_TIMES

C12_Failed ==
    /\ resp'.op \in {"register", "verify_email", "login", "create_contact",
                     "update_contact", "delete_contact", "update_avatar"}
    /\ resp'.status >= 400

C12_FailStep ==
    C12_Failed => (users' = users /\ contacts' = contacts /\ hosted' = hosted)

C12_AllOrNothing == [][C12_FailStep]_vars

\* C13: when two register calls for one email have both read "no such user"
\* before either has committed, one of them is answered 200 and the other
\* 409, and the users table holds exactly one user with the email.
C13_Interleaved(s, t) ==
    /\ s # t
    /\ pending[s].op = "register" /\ pending[t].op = "register"
    /\ pending[s].status # 0 /\ pending[t].status # 0
    /\ pending[s].read = "no such user" /\ pending[t].read = "no such user"
    /\ pending[t].overlap
    /\ pending[s].req.email = pending[t].req.email

C13_OneWins ==
    \A s, t \in Slots :
        C13_Interleaved(s, t) =>
            /\ {pending[s].status, pending[t].status} = {200, 409}
            /\ Cardinality(UsersBy("email", pending[s].req.email)) = 1

\* C18: a delete_contact call on a stored contact answers ok and removes it,
\* also while an update_contact call that has read the contact is in flight;
\* when that update then commits, it answers 200 or 404 and the contact
\* stays deleted.
C18_DeleteWins ==
    (resp'.op = "delete_contact" /\ ContactsById(resp'.req) # {})
        => (resp'.status = 200 /\ \A c \in contacts' : c.id # resp'.req)

C18_StaleCommit(s) ==
    /\ pending[s].op = "update_contact"
    /\ InFlight(s)
    /\ pending'[s].status # 0
    /\ ContactsById(pending[s].req.id) = {}

C18_SerialStep ==
    \A s \in Slots :
        C18_StaleCommit(s) =>
            /\ resp'.status \in {200, 404}
            /\ \A c \in contacts' : c.id # pending[s].req.id

C18_SerialOutcome == [][C18_DeleteWins /\ C18_SerialStep]_vars

\* C18, amended: the delete answers ok and removes the contact as above; the
\* update that read the contact before the delete and commits after it is
\* answered 500 (the session's error for the row that is gone), and it
\* changes no contact: the deleted contact is not re-created.
C18_StaleStep ==
    \A s \in Slots :
        C18_StaleCommit(s) =>
            /\ resp'.op = "update_contact"
            /\ resp'.status = 500
            /\ pending'[s].status = 500
            /\ contacts' = contacts

C18_StaleUpdateFails == [][C18_DeleteWins /\ C18_StaleStep]_vars

C18_Witness ==
    \E s \in Slots :
        /\ pending[s].op = "update_contact"
        /\ pending[s].status = 500
        /\ resp.op = "update_contact"
        /\ resp.out \in {"StaleDataError", "InvalidRequestError"}
        /\ ContactsById(pending[s].req.id) = {}

\* C14: with today = 2024-06-10, a GET /contacts/birthdays/ request answers
\* 200 with exactly the stored contacts whose birthday lies in
\* [2024-06-10, 2024-06-17]: of the birthdays 2024-06-09, 2024-06-15 and
\* 2024-06-20 that the stored contacts have, the one of 2024-06-15.
C14_BirthdayStep ==
    (resp'.op = "GET /contacts/{contact_id}" /\ resp'.req.segment = "birthdays")
        => /\ resp'.status = 200
           /\ resp'.out = {c \in contacts : c.birthday = "2024-06-15"}

C14_BirthdayWindow == [][C14_BirthdayStep]_vars

\* C15: a GET /contacts/search/?first_name=an request answers 200 with
\* exactly the stored contacts whose first_name holds "an" in any case: of
\* the first names Anna, Johan and Bob that the stored contacts have, those
\* named Anna or Johan.
C15_SearchStep ==
    (/\ resp'.op = "GET /contacts/{contact_id}"
     /\ resp'.req.segment = "search"
     /\ resp'.req.query = [first_name |-> "an"])
        => /\ resp'.status = 200
           /\ resp'.out = {c \in contacts : c.first_name \in {"Anna", "Johan"}}

C15_SearchSubstring == [][C15_SearchStep]_vars

\* C16: no step removes a stored user or changes a stored user's id or
\* email: every user of a state is a user, with the same id and email, of
\* the next state.
C16_UserStep ==
    \A u \in users : \E v \in users' : v.id = u.id /\ v.email = u.email

C16_UsersKept == [][C16_UserStep]_vars

C16_Witness ==
    /\ resp.op = "update_avatar"
    /\ resp.status = 200
    /\ \E u \in users : u.id = 1 /\ u.email = "a@x.org" /\ u.avatar_url = "http://img/2"
    /\ "http://img/1" \in hosted

\* C17: an update_avatar call that answers 200 answers the url the image
\* host has stored for it, sets avatar_url of the user the token names to
\* that url, and leaves that user's other fields, every other user and all
\* contacts as they were.
C17_AvatarStep ==
    (resp'.op = "update_avatar" /\ resp'.status = 200) =>
        LET mine == {u \in users : u.email = resp'.req.sub}
        IN  /\ Cardinality(mine) = 1
            /\ resp'.out \in hosted'
            /\ users' = (users \ mine) \cup
                           {[u EXCEPT !["avatar_url"] = resp'.out] : u \in mine}
            /\ contacts' = contacts

C17_AvatarFrame == [][C17_AvatarStep]_vars

C17_Witness ==
    /\ resp.op = "update_avatar"
    /\ resp.status = 200
    /\ contacts # {}
    /\ \E u \in users : u.email = resp.req.sub /\ u.avatar_url = resp.out
    /\ \E u \in users : u.email # resp.req.sub /\ u.avatar_url = None

\* C19: in every reachable state the owner_id of every stored contact is
\* the id of a stored user.
C19_OwnersStored ==
    \A c \in contacts : \E u \in users : u.id = c.owner_id

C19_Witness ==
    /\ resp.op = "create_contact"
    /\ resp.status = 200
    /\ resp.req.body.owner_id = 99
    /\ resp.out \in contacts
    /\ \E u \in users : u.email = "b@x.org" /\ u.id = resp.out.owner_id

\* C20: the set of issued access tokens changes only in a login step that
\* answers 200 with the new token, for a stored user whose password matched
\* and whose is_verified is 1; and in every reachable state the sub of every
\* issued token is the email of a stored user whose is_verified is 1.
C20_IssueStep ==
    issued' # issued =>
        /\ resp'.op = "login"
        /\ resp'.status = 200
        /\ issued' = issued \cup {resp'.out}
        /\ \E u \in users :
              /\ u.email = resp'.req.username
              /\ verify_password(resp'.req.password, u.hashed_password)
              /\ u.is_verified = 1
              /\ resp'.out.sub = u.email

C20_SubsVerified ==
    \A t \in issued : \E u \in users : u.email = t.sub /\ u.is_verified = 1

C20_TokensOnlyByLogin == [][C20_IssueStep]_vars /\ []C20_SubsVerified

C20_Witness ==
    /\ issued # {}
    /\ \A t \in issued : \E u \in users : u.email = t.sub /\ u.is_verified = 1
    /\ \E u \in users : u.is_verified = 0 /\ \A t \in issued : t.sub # u.email
    /\ resp.op = "login"
    /\ resp.status = 401
====
